---- MODULE Spec2Model ----
(***************************************************************************)
(* Model of github-music-api: the sonification mappers, the sample         *)
(* renderers, the 16-bit PCM / WAV writer and the request handlers that    *)
(* write temp files and drive ffmpeg.                                      *)
(*                                                                         *)
(* Two service files are modelled:                                         *)
(*   src/src/github/github.service.ts  (the service the controller uses)   *)
(*   src/unnamed/part_001              (a service file with the custom     *)
(*                                      renderer; names suffixed Custom)   *)
(*                                                                         *)
(* Numbers.  JavaScript numbers are IEEE doubles; the model computes with  *)
(* exact rationals in fixed point:                                         *)
(*   frequencies      integer multiples of 1/FreqScale Hz                  *)
(*   durations        pairs [num, den] of seconds                          *)
(*   sample values    integer multiples of 1/SampleUnit                    *)
(*   volume           integer multiples of 1/VolUnit                       *)
(* For the integer tempos 1..400 and counts used here the double results   *)
(* of 60/tempo, the band factor and 44100*duration floor to the same       *)
(* integer as the exact rational (checked outside the model).              *)
(***************************************************************************)
EXTENDS Integers, Sequences, FiniteSets, TLC

VARIABLES
  mIn,        \* mapper check: the inputs (count, tempo, base)
  mOut,       \* mapper check: the last mapper applied and its result
  wIn,        \* WAV check: the float sample array handed to createWavData
  wOut,       \* WAV check: the bytes produced
  rIn,        \* render check: entry point, day records, configuration
  rPc,        \* render check: position in the renderer
  rNotes,     \* render check: result of the .map over the day records
  rK,         \* render check: number of notes the forEach has consumed
  samples,    \* render check: the sample buffer
  rWav,       \* render check: header and data size of the WAV produced
  pc,         \* requests: where each request's handler stands
  user,       \* requests: the username query parameter of each request
  files,      \* requests: the temp directory, path -> file
  ffIn,       \* requests: what each request's ffmpeg process read
  resp,       \* requests: the HTTP response of each request
  req,        \* requests: endpoint, year, fetched days and rendered days
  alive,      \* requests: FALSE once an exception escaped an event handler
  foreign     \* requests: history of accesses to another request's file

mapVars == <<mIn, mOut>>
wavVars == <<wIn, wOut>>
renVars == <<rIn, rPc, rNotes, rK, samples, rWav>>
reqVars == <<pc, user, req, files, ffIn, resp, alive, foreign>>
vars == <<mIn, mOut, wIn, wOut, rIn, rPc, rNotes, rK, samples, rWav,
          pc, user, files, ffIn, resp, alive, foreign>>

(***************************************************************************)
(* Bounds of the model.                                                    *)
(***************************************************************************)
MaxCount == 103      \* largest activity count drawn for the mappers
MaxSamples == 2      \* longest float array handed to createWavData
MaxDays == 2         \* longest day sequence rendered

Min(a, b) == IF a <= b THEN a ELSE b
Max(a, b) == IF a >= b THEN a ELSE b

\* floor(a * x / b) for a >= 0, x >= 0, b > 0 without leaving 32 bits
Scale(a, b, x) == a * (x \div b) + (a * (x % b)) \div b

(***************************************************************************)
(* Units of the fixed-point representation.                                *)
(***************************************************************************)
FreqScale == 10000 * 20          \* units per Hz: 261.63, x/100, 5/4, 6/5, 3/2 exact
Hz(n) == n * FreqScale
SampleUnit == 10 * 100           \* units per 1.0 of sample amplitude
VolUnit == 10 * 10               \* units per 1.0 of volume

(***************************************************************************)
(* FrequencyMapper -- getFrequencyFromContribution                          *)
(***************************************************************************)
minFreq == 26163 * (FreqScale \div 100)      \* 261.63
maxFreq == 104650 * (FreqScale \div 100)     \* 1046.5

\* a plausible slip: the result is not clamped to maxFreq
getFrequencyFromContribution_noclamp(count) ==
  IF count <= 0 THEN minFreq
  ELSE Scale(count, 100, maxFreq - minFreq) + minFreq

\* a plausible slip: the slope has the wrong sign
getFrequencyFromContribution_falling(count) ==
  IF count <= 0 THEN minFreq
  ELSE Min(Max(maxFreq - Scale(count, 100, maxFreq - minFreq), minFreq), maxFreq)

getFrequencyFromContribution(count) ==
  IF count <= 0 THEN minFreq
  ELSE Min(Scale(count, 100, maxFreq - minFreq) + minFreq, maxFreq)

\* part_001's copy: count > 0 ? linear : minFreq, then Math.min
getFrequencyFromContributionCustom(count) ==
  Min(IF count > 0 THEN Scale(count, 100, maxFreq - minFreq) + minFreq
                   ELSE minFreq,
      maxFreq)

(***************************************************************************)
(* RhythmMapper -- getNoteDurationFromContribution                          *)
(* A duration is the rational num/den seconds.                             *)
(***************************************************************************)
Rat(n, d) == [num |-> n, den |-> d]
\* a < b for rationals with positive denominators
RatLess(a, b) == a.num * b.den < b.num * a.den

\* a plausible slip: exclusive lower bounds (count > 50, > 25, ...)
getNoteDurationFromContribution_exclusive(count, tempo) ==
  IF count > 50 THEN Rat(60 * 4, tempo)
  ELSE IF count > 25 THEN Rat(60 * 2, tempo)
  ELSE IF count > 10 THEN Rat(60, tempo)
  ELSE IF count > 5 THEN Rat(60, tempo * 2)
  ELSE Rat(60, tempo * 4)

getNoteDurationFromContribution(count, tempo) ==
  \* beatDuration = 60 / tempo
  IF count >= 50 THEN Rat(60 * 4, tempo)          \* beatDuration * 4
  ELSE IF count >= 25 THEN Rat(60 * 2, tempo)     \* beatDuration * 2
  ELSE IF count >= 10 THEN Rat(60, tempo)         \* beatDuration
  ELSE IF count >= 5 THEN Rat(60, tempo * 2)      \* beatDuration / 2
  ELSE Rat(60, tempo * 4)                         \* beatDuration / 4

(***************************************************************************)
(* HarmonyMapper -- getChordFromContribution                                *)
(* null is the empty sequence: the code never returns an empty array.      *)
(***************************************************************************)
NoChord == <<>>

\* a plausible slip: major and minor third swapped
getChordFromContribution_swapped(count, baseFreq) ==
  IF count >= 50 THEN <<baseFreq, (baseFreq * 6) \div 5, (baseFreq * 3) \div 2>>
  ELSE IF count >= 25 THEN <<baseFreq, (baseFreq * 5) \div 4, (baseFreq * 3) \div 2>>
  ELSE IF count >= 10 THEN <<baseFreq, (baseFreq * 3) \div 2>>
  ELSE NoChord

getChordFromContribution(count, baseFreq) ==
  IF count >= 50 THEN <<baseFreq, (baseFreq * 5) \div 4, (baseFreq * 3) \div 2>>
  ELSE IF count >= 25 THEN <<baseFreq, (baseFreq * 6) \div 5, (baseFreq * 3) \div 2>>
  ELSE IF count >= 10 THEN <<baseFreq, (baseFreq * 3) \div 2>>
  ELSE NoChord

(***************************************************************************)
(* Mapper check: inputs are drawn in the initial state, each action        *)
(* applies one mapper.                                                     *)
(***************************************************************************)
Counts == (0 - 3) .. MaxCount
Tempos == {45, 60, 120, 200}
NoOut == [op |-> "none", freq |-> 0, dur |-> Rat(0, 1), chord |-> NoChord]

IdleRender == [entry |-> "none", days |-> <<>>, instrumentId |-> 0,
               tempo |-> 0, volume |-> 0]
IdleBuffer == [spans |-> <<>>, length |-> 0]
IdleRWav == [header |-> <<>>, dataBytes |-> 0]

(***************************************************************************)
(* The temp directory and the requests at rest.                            *)
(***************************************************************************)
Reqs == {1, 2}
Users == {"alice", "bob"}
\* the year query parameter: absent (undefined) or a string, kept as its
\* sequence of characters
NoYear == [given |-> FALSE, value |-> <<>>]
Year(v) == [given |-> TRUE, value |-> v]
YearParams ==
  {NoYear, Year(<<"2", "0", "2", "3">>), Year(<<"2", "0", "2", "4">>),
   Year(<<"2", "0">>), Year(<<"2", "0", "2", "5">>)}
\* ${year} inside a template literal
YearText(y) ==
  IF y.given THEN y.value ELSE <<"u", "n", "d", "e", "f", "i", "n", "e", "d">>
\* the suffix of part_001's `${username}-custom.ext`
CustomSuffix == <<"c", "u", "s", "t", "o", "m">>
\* the names a temp file can have: `${username}.ext`, `${username}_${year}.ext`
\* (part_001: `${username}-${year}.ext`) and part_001's `${username}-custom.ext`
Paths ==
  (Users \X {"wav", "mp3"})
  \cup {<<u, YearText(y), e>> : u \in Users, y \in YearParams, e \in {"wav", "mp3"}}
  \cup {<<u, CustomSuffix, e>> : u \in Users, e \in {"wav", "mp3"}}
\* of: the request that wrote the file; from: the request whose WAV data it holds
NoFile == [exists |-> FALSE, of |-> 0, from |-> 0]
File(r, d) == [exists |-> TRUE, of |-> r, from |-> d]
\* the headers set with res.setHeader
NoHeaders == [contentType |-> "", disposition |-> ""]
\* sends: the number of res.send, res.render and pipe(res) calls so far
NoResponse ==
  [status |-> 0, headers |-> NoHeaders, body |-> NoFile, sends |-> 0]
\* fetched: what fetchContributionDays resolved; rendered: the day records
\* handed to createSamplesFromContributions; promise: the state of the
\* new Promise wrapped around the ffmpeg run; event: the event the ffmpeg
\* command emitted ('error' or 'end')
NoRequest ==
  [endpoint |-> "none", year |-> NoYear,
   fetched |-> [got |-> "none", days |-> <<>>],
   rendered |-> [done |-> FALSE, days |-> <<>>],
   promise |-> "none", event |-> "none"]

ReqsAtRest ==
  /\ pc = [r \in Reqs |-> "idle"]
  /\ user = [r \in Reqs |-> "alice"]
  /\ req = [r \in Reqs |-> NoRequest]
  /\ files = [p \in Paths |-> NoFile]
  /\ ffIn = [r \in Reqs |-> NoFile]
  /\ resp = [r \in Reqs |-> NoResponse]
  /\ alive = TRUE
  /\ foreign = {}

OthersIdleForMap ==
  /\ wIn = [samples |-> <<>>, n |-> 0]
  /\ wOut = [op |-> "none", threw |-> FALSE, bytes |-> <<>>]
  /\ rIn = IdleRender /\ rPc = "idle" /\ rNotes = <<>> /\ rK = 0
  /\ samples = IdleBuffer /\ rWav = IdleRWav
  /\ ReqsAtRest

InitMap ==
  /\ mIn \in [count : Counts, tempo : Tempos, useA440 : BOOLEAN]
  /\ mOut = NoOut
  /\ OthersIdleForMap

\* the base pitch handed to the harmony mapper: 440 Hz or the mapped pitch
BaseOf(in) == IF in.useA440 THEN Hz(440) ELSE getFrequencyFromContributionCustom(in.count)

CallFrequency ==
  /\ mOut.op = "none"
  /\ mOut' = [NoOut EXCEPT !.op = "freq",
                           !.freq = getFrequencyFromContribution(mIn.count)]
  /\ UNCHANGED <<mIn, wavVars, renVars, reqVars>>

CallFrequencyCustom ==
  /\ mOut.op = "none"
  /\ mOut' = [NoOut EXCEPT !.op = "freqCustom",
                           !.freq = getFrequencyFromContributionCustom(mIn.count)]
  /\ UNCHANGED <<mIn, wavVars, renVars, reqVars>>

CallDuration ==
  /\ mOut.op = "none"
  /\ mOut' = [NoOut EXCEPT !.op = "dur",
                           !.dur = getNoteDurationFromContribution(mIn.count, mIn.tempo)]
  /\ UNCHANGED <<mIn, wavVars, renVars, reqVars>>

CallChord ==
  /\ mOut.op = "none"
  /\ mOut' = [NoOut EXCEPT !.op = "chord",
                           !.freq = BaseOf(mIn),
                           !.chord = getChordFromContribution(mIn.count, BaseOf(mIn))]
  /\ UNCHANGED <<mIn, wavVars, renVars, reqVars>>

NextMap == CallFrequency \/ CallFrequencyCustom \/ CallDuration \/ CallChord

SpecMap == InitMap /\ [][NextMap]_vars

(***************************************************************************)
(* Claims about the mappers (checked under SpecMap).                       *)
(***************************************************************************)
FreqApplied == mOut.op \in {"freq", "freqCustom"}

\* C5: FrequencyMapper returns exactly 261.63 for every count <= 0, exactly
\* 1046.5 for every count >= 100, always a value in [261.63, 1046.5], and
\* (count/100)*(1046.5-261.63)+261.63 for 0 < count < 100.
C5_FrequencyClamped ==
  FreqApplied =>
    /\ mIn.count <= 0 => mOut.freq = 26163 * (FreqScale \div 100)
    /\ mIn.count >= 100 => mOut.freq = 104650 * (FreqScale \div 100)
    /\ mOut.freq >= 26163 * (FreqScale \div 100)
    /\ mOut.freq <= 104650 * (FreqScale \div 100)
    /\ (0 < mIn.count /\ mIn.count < 100) =>
         \* (count * 784.87 + 26163) / 100 Hz, in units of 1/FreqScale Hz
         mOut.freq = (mIn.count * 78487 + 2616300) * (FreqScale \div 10000)

C5_Witness ==
  /\ mOut.op = "freq"
  /\ mIn.count > 100
  /\ mOut.freq = 104650 * (FreqScale \div 100)

\* C6: FrequencyMapper is monotonically non-decreasing: the pitch returned for
\* a count is at least the pitch of every smaller count.
C6_FrequencyMonotone ==
  mOut.op = "freq" =>
    \A a \in Counts :
      /\ a <= mIn.count => getFrequencyFromContribution(a) <= mOut.freq
      /\ a >= mIn.count => getFrequencyFromContribution(a) >= mOut.freq

C6_Witness ==
  /\ mOut.op = "freq"
  /\ mIn.count = 50
  /\ getFrequencyFromContribution(49) < mOut.freq
  /\ mOut.freq < getFrequencyFromContribution(51)

\* the representative count of the next lower band, as the claim lists them
LowerBandCount(c) ==
  IF c = 60 THEN 30 ELSE IF c = 30 THEN 15 ELSE IF c = 15 THEN 7 ELSE 1

\* C7: RhythmMapper maps count to a duration by inclusive lower-bound bands
\* of beat = 60/tempo (>= 50: 4 beats, 25..49: 2, 10..24: 1, 5..9: 1/2,
\* below 5: 1/4), so the durations at counts 60, 30, 15, 7, 1 strictly fall.
C7_RhythmBands ==
  mOut.op = "dur" =>
    LET c == mIn.count
        t == mIn.tempo
        d == mOut.dur
    IN /\ d.den > 0
       /\ c >= 50 => d.num * t = 240 * d.den
       /\ (25 <= c /\ c <= 49) => d.num * t = 120 * d.den
       /\ (10 <= c /\ c <= 24) => d.num * t = 60 * d.den
       /\ (5 <= c /\ c <= 9) => d.num * t = 30 * d.den
       /\ c < 5 => d.num * t = 15 * d.den
       /\ c \in {60, 30, 15, 7} =>
            RatLess(getNoteDurationFromContribution(LowerBandCount(c), t), d)

C7_Witness ==
  /\ mOut.op = "dur"
  /\ mIn.count = 50
  /\ mIn.tempo = 120
  /\ mOut.dur = Rat(240, 120)

\* C8: HarmonyMapper returns for base pitch b the triad {b, 5b/4, 3b/2} when
\* count >= 50, {b, 6b/5, 3b/2} when 25 <= count < 50, the dyad {b, 3b/2}
\* when 10 <= count < 25 and no chord below 10; (60, 440) gives
\* {440, 550, 660}, (3, 440) gives none; a chord has 2 or 3 pitches, b first.
C8_HarmonyRatios ==
  mOut.op = "chord" =>
    LET c == mIn.count
        b == mOut.freq
        ch == mOut.chord
    IN /\ c >= 50 =>
            Len(ch) = 3 /\ ch[1] = b /\ 4 * ch[2] = 5 * b /\ 2 * ch[3] = 3 * b
       /\ (25 <= c /\ c < 50) =>
            Len(ch) = 3 /\ ch[1] = b /\ 5 * ch[2] = 6 * b /\ 2 * ch[3] = 3 * b
       /\ (10 <= c /\ c < 25) =>
            Len(ch) = 2 /\ ch[1] = b /\ 2 * ch[2] = 3 * b
       /\ c < 10 => ch = NoChord
       /\ (c = 60 /\ mIn.useA440) => ch = <<Hz(440), Hz(550), Hz(660)>>
       /\ (c = 3 /\ mIn.useA440) => ch = NoChord
       /\ ch # NoChord => Len(ch) \in {2, 3} /\ ch[1] = b

C8_Witness ==
  /\ mOut.op = "chord"
  /\ mIn.count = 60
  /\ mIn.useA440
  /\ mOut.chord = <<Hz(440), Hz(550), Hz(660)>>

(***************************************************************************)
(* PcmQuantizer and WavContainerWriter -- createWavData, getWavHeader       *)
(* A Buffer is a sequence of bytes 0..255; offset o is element o + 1.      *)
(***************************************************************************)
sampleRate == 44100

Ascii4(a, b, c, d) == <<a, b, c, d>>
RIFF == Ascii4(82, 73, 70, 70)
WAVE == Ascii4(87, 65, 86, 69)
FMT == Ascii4(102, 109, 116, 32)
DATA == Ascii4(100, 97, 116, 97)

\* Buffer.writeUInt16LE / writeUInt32LE of an in-range integer
writeUInt16LE(v) == <<v % 256, (v \div 256) % 256>>
writeUInt32LE(v) ==
  <<v % 256, (v \div 256) % 256, (v \div 65536) % 256, (v \div 16777216) % 256>>

\* what a WAV reader does with the bytes at offset o
readUInt16LE(buf, o) == buf[o + 1] + 256 * buf[o + 2]
readUInt32LE(buf, o) ==
  buf[o + 1] + 256 * buf[o + 2] + 65536 * buf[o + 3] + 16777216 * buf[o + 4]
readInt16LE(buf, o) ==
  LET u == readUInt16LE(buf, o) IN IF u >= 32768 THEN u - 65536 ELSE u

\* a plausible slip: ChunkSize holds the file size, not the file size - 8
getWavHeader_chunkIsFileSize(samplesLength, rate) ==
  LET blockAlign == 2
      byteRate == rate * blockAlign
      dataSize == samplesLength * blockAlign
  IN RIFF \o writeUInt32LE(44 + dataSize) \o WAVE \o FMT \o writeUInt32LE(16)
       \o writeUInt16LE(1) \o writeUInt16LE(1) \o writeUInt32LE(rate)
       \o writeUInt32LE(byteRate) \o writeUInt16LE(blockAlign)
       \o writeUInt16LE(16) \o DATA \o writeUInt32LE(dataSize)

\* a plausible slip: dataSize counts samples, not bytes
getWavHeader_samplesAsBytes(samplesLength, rate) ==
  LET blockAlign == 2
      byteRate == rate * blockAlign
      dataSize == samplesLength
  IN RIFF \o writeUInt32LE(36 + dataSize) \o WAVE \o FMT \o writeUInt32LE(16)
       \o writeUInt16LE(1) \o writeUInt16LE(1) \o writeUInt32LE(rate)
       \o writeUInt32LE(byteRate) \o writeUInt16LE(blockAlign)
       \o writeUInt16LE(16) \o DATA \o writeUInt32LE(dataSize)

getWavHeader(samplesLength, rate) ==
  LET blockAlign == 2
      byteRate == rate * blockAlign
      dataSize == samplesLength * blockAlign
  IN RIFF \o writeUInt32LE(36 + dataSize) \o WAVE \o FMT \o writeUInt32LE(16)
       \o writeUInt16LE(1) \o writeUInt16LE(1) \o writeUInt32LE(rate)
       \o writeUInt32LE(byteRate) \o writeUInt16LE(blockAlign)
       \o writeUInt16LE(16) \o DATA \o writeUInt32LE(dataSize)

\* the integer part of n/d, rounded toward zero (d > 0): the conversion a
\* Buffer element store applies to a non-integer value
Trunc(n, d) == IF n >= 0 THEN n \div d ELSE 0 - ((0 - n) \div d)

\* Buffer.writeInt16LE(value) for value = n/d: a value outside
\* -32768..32767 throws a RangeError (no bytes), otherwise the two's
\* complement of the truncated value, low byte first
RangeError == <<>>
writeInt16LE(n, d) ==
  IF n > 32767 * d \/ n < (0 - 32768) * d THEN RangeError
  ELSE LET u == Trunc(n, d) % 65536 IN <<u % 256, u \div 256>>

\* Math.max(-1, Math.min(1, s)) on a sample in units of 1/SampleUnit
Clamp(s) == Max(0 - SampleUnit, Min(SampleUnit, s))

\* a plausible slip: the sample is scaled without being clamped
QuantizeSample_noclamp(s) == writeInt16LE(s * 32767, SampleUnit)

\* one iteration of the quantizing loop: the two bytes stored for sample s
QuantizeSample(s) == writeInt16LE(Clamp(s) * 32767, SampleUnit)

\* createWavData(samples): Buffer.alloc(2n), the loop, header prepended.
\* threw is TRUE when some writeInt16LE throws.
createWavData(smp) ==
  LET n == Len(smp)
      threw == \E i \in 1..n : QuantizeSample(smp[i]) = RangeError
      buffer == [j \in 1..(2 * n) |->
                   LET q == QuantizeSample(smp[((j - 1) \div 2) + 1])
                   IN IF q = RangeError THEN 0 ELSE q[((j - 1) % 2) + 1]]
  IN [threw |-> threw,
      bytes |-> IF threw THEN <<>> ELSE getWavHeader(n, 44100) \o buffer]

(***************************************************************************)
(* WAV check: a float array and a sample count are drawn in the initial    *)
(* state; the actions apply createWavData and getWavHeader.                *)
(***************************************************************************)
\* -5.0, -1.0, -0.9999, -0.5, 0, 0.5, 1.0, 2.0 in units of 1/SampleUnit
SampleValues == {0 - 5 * SampleUnit, 0 - SampleUnit, 1 - SampleUnit,
                 0 - (SampleUnit \div 2), 0, SampleUnit \div 2, SampleUnit,
                 2 * SampleUnit}
SampleArrays == UNION {[1..n -> SampleValues] : n \in 0..MaxSamples}
\* sample counts of real renders: none, one, a simple day, custom days
HeaderLengths == {0, 1, 4410, 5512, 88200, 4 * 88200}

NoWav == [op |-> "none", threw |-> FALSE, bytes |-> <<>>]

InitWav ==
  /\ wIn \in [samples : SampleArrays, n : HeaderLengths]
  /\ wOut = NoWav
  /\ mIn = [count |-> 0, tempo |-> 0, useA440 |-> FALSE] /\ mOut = NoOut
  /\ rIn = IdleRender /\ rPc = "idle" /\ rNotes = <<>> /\ rK = 0
  /\ samples = IdleBuffer /\ rWav = IdleRWav
  /\ ReqsAtRest

CallCreateWavData ==
  /\ wOut.op = "none"
  /\ wOut' = [op |-> "createWavData",
              threw |-> createWavData(wIn.samples).threw,
              bytes |-> createWavData(wIn.samples).bytes]
  /\ UNCHANGED <<wIn, mapVars, renVars, reqVars>>

CallGetWavHeader ==
  /\ wOut.op = "none"
  /\ wOut' = [op |-> "getWavHeader", threw |-> FALSE,
              bytes |-> getWavHeader(wIn.n, sampleRate)]
  /\ UNCHANGED <<wIn, mapVars, renVars, reqVars>>

NextWav == CallCreateWavData \/ CallGetWavHeader

SpecWav == InitWav /\ [][NextWav]_vars

\* the sample count the bytes in wOut were produced for
WavCount == IF wOut.op = "getWavHeader" THEN wIn.n ELSE Len(wIn.samples)

\* C1: for every sample count n the WAV bytes are 44 header bytes followed by
\* 2n data bytes, and a header reader finds ChunkSize = 36 + 2n,
\* Subchunk1Size = 16, AudioFormat = 1, NumChannels = 1, SampleRate = 44100,
\* ByteRate = 88200, BlockAlign = 2, BitsPerSample = 16, Subchunk2Size = 2n.
C1_WavHeaderCanonical ==
  wOut.op # "none" =>
    LET b == wOut.bytes
        n == WavCount
    IN /\ ~wOut.threw
       /\ wOut.op = "createWavData" => Len(b) = 44 + 2 * n
       /\ wOut.op = "getWavHeader" => Len(b) = 44
       /\ SubSeq(b, 1, 4) = <<82, 73, 70, 70>>
       /\ readUInt32LE(b, 4) = 36 + 2 * n
       /\ SubSeq(b, 9, 16) = <<87, 65, 86, 69, 102, 109, 116, 32>>
       /\ readUInt32LE(b, 16) = 16
       /\ readUInt16LE(b, 20) = 1
       /\ readUInt16LE(b, 22) = 1
       /\ readUInt32LE(b, 24) = 44100
       /\ readUInt32LE(b, 24) = sampleRate
       /\ readUInt32LE(b, 28) = 88200
       /\ readUInt16LE(b, 32) = 2
       /\ readUInt16LE(b, 34) = 16
       /\ SubSeq(b, 37, 40) = <<100, 97, 116, 97>>
       /\ readUInt32LE(b, 40) = 2 * n
       /\ \A j \in 1..Len(b) : b[j] \in 0..255

C1_Witness ==
  /\ wOut.op = "createWavData"
  /\ Len(wIn.samples) = 2
  /\ Len(wOut.bytes) = 48
  /\ readUInt32LE(wOut.bytes, 40) = 4

\* C9: PcmQuantizer clamps before scaling: for every input sample, also one
\* outside [-1, 1] such as 2.0 or -5.0, the stored 16-bit value lies in
\* [-32767, 32767]; the data is 2 bytes per input sample, in input order.
C9_QuantizerClamps ==
  wOut.op = "createWavData" =>
    LET n == Len(wIn.samples)
        b == wOut.bytes
    IN /\ ~wOut.threw
       /\ Len(b) - 44 = 2 * n
       /\ \A i \in 1..n :
            LET s == wIn.samples[i]
                stored == readInt16LE(b, 44 + 2 * (i - 1))
            IN /\ stored >= 0 - 32767
               /\ stored <= 32767
               /\ s >= SampleUnit => stored = 32767
               /\ s <= 0 - SampleUnit => stored = 0 - 32767
               /\ (0 - SampleUnit < s /\ s < SampleUnit) =>
                    stored = Trunc(s * 32767, SampleUnit)

C9_Witness ==
  /\ wOut.op = "createWavData"
  /\ wIn.samples = <<2 * SampleUnit, 0 - 5 * SampleUnit>>
  /\ readInt16LE(wOut.bytes, 44) = 32767
  /\ readInt16LE(wOut.bytes, 46) = 0 - 32767

(***************************************************************************)
(* WaveformSynthesizer and SampleRenderer                                  *)
(*                                                                         *)
(* The sample buffer is kept run-length encoded: one span per forEach      *)
(* iteration.  A span records the buffer index of its first sample         *)
(* (samples.length when the iteration starts), the number n of push calls, *)
(* the loop index i0 of its first sample (t = i / sampleRate) and the      *)
(* expression every sample of the span is computed by:                     *)
(*   scale * (sum over p in pitches of wave(p, i / sampleRate)) / divisor. *)
(* rnd is the first value Math.random() returned while the span was        *)
(* computed (in 1/SampleUnit), NoRandom when the waveform never calls it.  *)
(***************************************************************************)
NoRandom == 0 - 1

\* a plausible slip: the default branch falls through to another variant
getInstrumentWaveform_defaultSquare(instrumentId) ==
  CASE instrumentId = 1 -> "sin"
    [] instrumentId = 2 -> "sinPlusHalfOctave"
    [] instrumentId = 3 -> "triangle"
    [] instrumentId = 4 -> "sawtooth"
    [] instrumentId = 5 -> "square"
    [] instrumentId = 6 -> "noiseBurst"
    [] instrumentId = 7 -> "ringModulated"
    [] instrumentId = 8 -> "vibrato"
    [] OTHER -> "square"

\* the closure getInstrumentWaveform returns, named by its formula
getInstrumentWaveform(instrumentId) ==
  CASE instrumentId = 1 -> "sin"
    [] instrumentId = 2 -> "sinPlusHalfOctave"
    [] instrumentId = 3 -> "triangle"
    [] instrumentId = 4 -> "sawtooth"
    [] instrumentId = 5 -> "square"
    [] instrumentId = 6 -> "noiseBurst"
    [] instrumentId = 7 -> "ringModulated"
    [] instrumentId = 8 -> "vibrato"
    [] OTHER -> "sin"

\* the closure's value at t = 0, in 1/SampleUnit: sin(0) = 0 for the sines,
\* the triangle (asin(sin 0)), the square (Math.sign(0)), the ring modulation
\* and the vibrato; 2 * (0 % period) / period - 1 = -1 for the sawtooth;
\* (Math.random() * 2 - 1) * exp(0) for the noise burst
WaveformAtZero(wave, rnd) ==
  CASE wave = "sawtooth" -> 0 - SampleUnit
    [] wave = "noiseBurst" -> 2 * rnd - SampleUnit
    [] OTHER -> 0

\* floor and ceiling of the rational n/d (d # 0)
FloorRat(n, d) == IF d > 0 THEN n \div d ELSE (0 - n) \div (0 - d)
CeilRat(n, d) == 0 - FloorRat(0 - n, d)

\* samples.push inside the loop: the span is placed at the end of the buffer
PushSpan(buf, span) ==
  [spans |-> Append(buf.spans, [span EXCEPT !.first = buf.length]),
   length |-> buf.length + span.n]

EmptyBuffer == [spans |-> <<>>, length |-> 0]

\* contributionDays.map(day => getFrequencyFromContribution(day.contributionCount))
\* a note of the simple renderer: one frequency, duration = 0.1
SimpleNotes(days) ==
  [k \in 1..Len(days) |->
     [freq |-> getFrequencyFromContribution(days[k].contributionCount),
      noteDuration |-> Rat(1, 10),
      chord |-> NoChord]]

\* a plausible slip: the amplitude factor 0.5 is left out
RenderNoteSimple_fullScale(buf, note) ==
  LET n == CeilRat(sampleRate * note.noteDuration.num, note.noteDuration.den)
  IN PushSpan(buf, [first |-> 0, n |-> Max(0, n), i0 |-> 0, wave |-> "sin",
                    pitches |-> <<note.freq>>, divisor |-> 1,
                    scale |-> VolUnit, rnd |-> NoRandom])

\* a plausible slip: unshift instead of push (the new day goes in front)
RenderNoteSimple_prepend(buf, note) ==
  LET n == CeilRat(sampleRate * note.noteDuration.num, note.noteDuration.den)
  IN [spans |-> <<[first |-> 0, n |-> n, i0 |-> 0, wave |-> "sin",
                   pitches |-> <<note.freq>>, divisor |-> 1,
                   scale |-> VolUnit \div 2, rnd |-> NoRandom]>>
                 \o buf.spans,
      length |-> buf.length + n]

\* one iteration of frequencies.forEach in createSamplesFromContributions:
\* sampleCount = sampleRate * duration; for (i = 0; i < sampleCount; i++)
\* push(sin(2 pi freq (i / sampleRate)) * 0.5)
RenderNoteSimple(buf, note) ==
  LET n == CeilRat(sampleRate * note.noteDuration.num, note.noteDuration.den)
  IN PushSpan(buf, [first |-> 0, n |-> Max(0, n), i0 |-> 0, wave |-> "sin",
                    pitches |-> <<note.freq>>, divisor |-> 1,
                    scale |-> VolUnit \div 2, rnd |-> NoRandom])

\* tempo = tempo || 120 ; volume = volume !== undefined ? volume : 0.5
\* a query parameter is [given, value]; not given is undefined
EffectiveTempo(t) == IF ~t.given \/ t.value = 0 THEN 120 ELSE t.value
EffectiveVolume(v) == IF v.given THEN v.value ELSE VolUnit \div 2

\* contributionDays.map(day => ({ freq, noteDuration, chord })) of part_001
CustomNotes(days, tempo) ==
  [k \in 1..Len(days) |->
     LET count == days[k].contributionCount
         freq == getFrequencyFromContributionCustom(count)
     IN [freq |-> freq,
         noteDuration |-> getNoteDurationFromContribution(count, tempo),
         chord |-> getChordFromContribution(count, freq)]]

\* a plausible slip: Math.round instead of Math.floor
SampleCountCustom_round(noteDuration) ==
  FloorRat(2 * sampleRate * noteDuration.num + noteDuration.den,
           2 * noteDuration.den)

\* Math.floor(sampleRate * noteDuration)
SampleCountCustom(noteDuration) ==
  FloorRat(sampleRate * noteDuration.num, noteDuration.den)

\* a plausible slip: the loop index runs on across notes (t is not reset)
RenderNoteCustom_runningTime(buf, note, instrumentId, volume) ==
  LET sampleCount == SampleCountCustom(note.noteDuration)
  IN PushSpan(buf, [first |-> 0, n |-> Max(0, sampleCount),
                    i0 |-> buf.length,
                    wave |-> getInstrumentWaveform(instrumentId),
                    pitches |-> IF note.chord # NoChord THEN note.chord
                                                        ELSE <<note.freq>>,
                    divisor |-> IF note.chord # NoChord THEN Len(note.chord)
                                                        ELSE 1,
                    scale |-> volume, rnd |-> NoRandom])

\* a plausible slip: the chord's sum is not divided by chord.length
RenderNoteCustom_sumOnly(buf, note, instrumentId, volume) ==
  LET sampleCount == SampleCountCustom(note.noteDuration)
  IN PushSpan(buf, [first |-> 0, n |-> Max(0, sampleCount), i0 |-> 0,
                    wave |-> getInstrumentWaveform(instrumentId),
                    pitches |-> IF note.chord # NoChord THEN note.chord
                                                        ELSE <<note.freq>>,
                    divisor |-> 1,
                    scale |-> volume, rnd |-> NoRandom])

\* one iteration of frequenciesAndDurations.forEach in part_001's
\* generateCustomMusic: for (i = 0; i < sampleCount; i++) with t = i/sampleRate,
\* the chord's sum divided by chord.length or the single frequency, times
\* volume
RenderNoteCustom(buf, note, instrumentId, volume) ==
  LET sampleCount == SampleCountCustom(note.noteDuration)
  IN PushSpan(buf, [first |-> 0, n |-> Max(0, sampleCount), i0 |-> 0,
                    wave |-> getInstrumentWaveform(instrumentId),
                    pitches |-> IF note.chord # NoChord THEN note.chord
                                                        ELSE <<note.freq>>,
                    divisor |-> IF note.chord # NoChord THEN Len(note.chord)
                                                        ELSE 1,
                    scale |-> volume, rnd |-> NoRandom])

\* a plausible slip: every waveform is dithered with Math.random()
DrawRandom_always(buf, rnd) ==
  LET k == Len(buf.spans)
  IN IF buf.spans[k].n > 0
     THEN [buf EXCEPT !.spans[k].rnd = rnd]
     ELSE buf

\* Math.random() inside the noise burst closure: the span that was just
\* pushed keeps the value drawn, if its waveform drew one
DrawRandom(buf, rnd) ==
  LET k == Len(buf.spans)
  IN IF buf.spans[k].wave = "noiseBurst" /\ buf.spans[k].n > 0
     THEN [buf EXCEPT !.spans[k].rnd = rnd]
     ELSE buf

\* Which renderer an entry point of the services runs.
\*   music     github.service.ts generateAndSendMusic
\*   custom    github.service.ts generateCustomMusic: it only calls
\*             generateAndSendMusic(username, res, false)
\*   p1music   part_001 generateAndSendMusic (the same loop, inline)
\*   p1custom  part_001 generateCustomMusic
Entries == {"music", "custom", "p1music", "p1custom"}
ConfiguredEntries == {"custom", "p1custom"}

RendererOf(entry) ==
  IF entry = "p1custom" THEN "customRenderer" ELSE "simpleRenderer"

(***************************************************************************)
(* Render check: entry point, day records and query parameters are drawn   *)
(* in the initial state; the actions are the .map, each forEach iteration  *)
(* and the WAV header over the finished buffer.                            *)
(***************************************************************************)
\* a date is the string "YYYY-MM-DD", kept as its sequence of characters
Date2023 == <<"2", "0", "2", "3", "-", "1", "2", "-", "3", "1">>
Date2024 == <<"2", "0", "2", "4", "-", "0", "1", "-", "0", "1">>
Dates == {Date2023, Date2024}
DayCounts == {0, 7, 15, 30, 60}
DayRecords ==
  [date : {Date2023}, contributionCount : DayCounts]
  \cup [date : {Date2024}, contributionCount : {0, 15}]
DaySeqs == UNION {[1..n -> DayRecords] : n \in 0..MaxDays}

NotGiven == [given |-> FALSE, value |-> 0]
Given(v) == [given |-> TRUE, value |-> v]
InstrumentIds == {0, 1, 4, 6, 9}
TempoParams ==
  {NotGiven, Given(60), Given(120), Given(200), Given(0), Given(0 - 60)}
\* values Math.random() may return first, in 1/SampleUnit
RandomValues == {0, 3 * (SampleUnit \div 4)}
VolumeParams == {NotGiven, Given(VolUnit), Given(VolUnit \div 5)}

RenderInputs ==
  [entry : {"p1custom"}, days : DaySeqs, instrumentId : InstrumentIds,
   tempo : TempoParams, volume : VolumeParams]
  \cup
  [entry : {"custom"}, days : DaySeqs, instrumentId : {4},
   tempo : {NotGiven, Given(60)}, volume : {NotGiven, Given(VolUnit)}]
  \cup
  [entry : Entries \ ConfiguredEntries, days : DaySeqs, instrumentId : {0},
   tempo : {NotGiven}, volume : {NotGiven}]

InitRender ==
  /\ rIn \in RenderInputs
  /\ rPc = "start"
  /\ rNotes = <<>>
  /\ rK = 0
  /\ samples = EmptyBuffer
  /\ rWav = IdleRWav
  /\ mIn = [count |-> 0, tempo |-> 0, useA440 |-> FALSE] /\ mOut = NoOut
  /\ wIn = [samples |-> <<>>, n |-> 0] /\ wOut = NoWav
  /\ ReqsAtRest

\* the .map over the day records
MapDays ==
  /\ rPc = "start"
  /\ rNotes' = IF RendererOf(rIn.entry) = "customRenderer"
               THEN CustomNotes(rIn.days, EffectiveTempo(rIn.tempo))
               ELSE SimpleNotes(rIn.days)
  /\ rPc' = "render"
  /\ UNCHANGED <<rIn, rK, samples, rWav, mapVars, wavVars, reqVars>>

\* one forEach iteration
RenderDay ==
  /\ rPc = "render"
  /\ rK < Len(rNotes)
  /\ \E rnd \in RandomValues :
       samples' = IF RendererOf(rIn.entry) = "customRenderer"
                  THEN DrawRandom(
                         RenderNoteCustom(samples, rNotes[rK + 1],
                                          rIn.instrumentId,
                                          EffectiveVolume(rIn.volume)), rnd)
                  ELSE RenderNoteSimple(samples, rNotes[rK + 1])
  /\ rK' = rK + 1
  /\ UNCHANGED <<rIn, rPc, rNotes, rWav, mapVars, wavVars, reqVars>>

\* Buffer.alloc(samples.length * 2), getWavHeader(samples.length, sampleRate)
WriteWav ==
  /\ rPc = "render"
  /\ rK = Len(rNotes)
  /\ rWav' = [header |-> getWavHeader(samples.length, sampleRate),
              dataBytes |-> samples.length * 2]
  /\ rPc' = "done"
  /\ UNCHANGED <<rIn, rNotes, rK, samples, mapVars, wavVars, reqVars>>

NextRender == MapDays \/ RenderDay \/ WriteWav

SpecRender == InitRender /\ [][NextRender]_vars

(***************************************************************************)
(* Claims about the renderers (checked under SpecRender).                  *)
(***************************************************************************)
\* round(sampleRate * n/d) as Math.round computes it: floor(x + 1/2)
RoundRate(n, d) == FloorRat(2 * sampleRate * n + d, 2 * d)

\* quarter beats of the rhythm band of a count
QuarterBeats(c) ==
  IF c >= 50 THEN 16 ELSE IF c >= 25 THEN 8 ELSE IF c >= 10 THEN 4
  ELSE IF c >= 5 THEN 2 ELSE 1

\* the tempo query parameter is absent or a positive number
PositiveTempo == rIn.tempo.given => rIn.tempo.value > 0

\* C2 as stated: every day's span holds exactly
\* round(sampleRateHz * durationSeconds) samples, whatever the count and the
\* tempo (count below 5 at tempo 120: round(5512.5)).
C2_SamplesPerDayRounded ==
  PositiveTempo =>
    \A k \in 1..Len(samples.spans) :
      samples.spans[k].n =
        RoundRate(rNotes[k].noteDuration.num, rNotes[k].noteDuration.den)

\* C2 amended: part_001's custom renderer appends exactly
\* floor(sampleRateHz * durationSeconds) samples per day, the duration being
\* the rhythm band's at the tempo in effect (count 60 at tempo 120: 88200,
\* count below 5 at tempo 120: 5512); the simple renderer appends exactly
\* 4410 samples per day.
C2_SamplesPerDayFloored ==
  \A k \in 1..Len(samples.spans) :
    LET c == rIn.days[k].contributionCount
        tempo == IF rIn.tempo.given THEN rIn.tempo.value ELSE 120
    IN IF rIn.entry = "p1custom"
       THEN PositiveTempo =>
              /\ samples.spans[k].n = (44100 * 15 * QuarterBeats(c)) \div tempo
              /\ (c = 60 /\ tempo = 120) => samples.spans[k].n = 88200
              /\ (c < 5 /\ tempo = 120) => samples.spans[k].n = 5512
       ELSE samples.spans[k].n = 4410

C2_Witness ==
  /\ rIn.entry = "p1custom"
  /\ rIn.tempo = Given(120)
  /\ rPc = "done"
  /\ Len(rIn.days) = 2
  /\ rIn.days[1].contributionCount = 0
  /\ rIn.days[2].contributionCount = 60
  /\ samples.spans[1].n = 5512
  /\ samples.spans[2].n = 88200

\* C3 as stated: a finished custom render took every day's duration from
\* the rhythm mapping at the tempo in effect, its pitch set from the
\* frequency and harmony mappings, its waveform from instrumentId and its
\* scale from volume.
C3_CustomUsesConfig ==
  (rPc = "done" /\ rIn.entry \in ConfiguredEntries /\ PositiveTempo) =>
    \A k \in 1..Len(rIn.days) :
      LET c == rIn.days[k].contributionCount
          f == getFrequencyFromContributionCustom(c)
          ch == getChordFromContribution(c, f)
          sp == samples.spans[k]
      IN /\ sp.n = SampleCountCustom(
                     getNoteDurationFromContribution(c, EffectiveTempo(rIn.tempo)))
         /\ sp.pitches = IF ch # NoChord THEN ch ELSE <<f>>
         /\ sp.wave = getInstrumentWaveform(rIn.instrumentId)
         /\ sp.scale = EffectiveVolume(rIn.volume)

RECURSIVE SumOfCounts(_, _)
\* the number of samples in the first k spans
SumOfCounts(sp, k) == IF k = 0 THEN 0 ELSE SumOfCounts(sp, k - 1) + sp[k].n

\* C10: the sample buffer is the concatenation of the per-day spans in input
\* day order: the total is the sum of the per-day counts, day k's span
\* starts right after the spans of days 1..k-1, and the local time index
\* restarts at 0 at the first sample of every day.
C10_ConcatenatedInDayOrder ==
  LET sp == samples.spans
  IN /\ Len(sp) = rK
     /\ samples.length = SumOfCounts(sp, Len(sp))
     /\ rPc = "done" => Len(sp) = Len(rIn.days)
     /\ rPc = "done" => rWav.dataBytes = 2 * SumOfCounts(sp, Len(sp))
     /\ \A k \in 1..Len(sp) :
          /\ sp[k].first = SumOfCounts(sp, k - 1)
          /\ sp[k].i0 = 0
          /\ sp[k].pitches[1] =
               getFrequencyFromContribution(rIn.days[k].contributionCount)

C10_Witness ==
  /\ rPc = "done"
  /\ rIn.entry = "music"
  /\ Len(rIn.days) = 2
  /\ rIn.days[1].contributionCount = 60
  /\ rIn.days[2].contributionCount = 7
  /\ samples.spans[2].first = 4410
  /\ samples.length = 8820

\* C11: in simple mode every day record contributes exactly 4410 samples
\* whatever its activity count, computed from one frequency (the day's
\* mapped pitch) with amplitude scale 0.5; d days yield 4410 * d samples and
\* Subchunk2Size = 8820 * d, and the first sample of each day (t = 0) is 0.
C11_SimpleModeFixedSpan ==
  RendererOf(rIn.entry) = "simpleRenderer" =>
    /\ samples.length = 4410 * rK
    /\ \A k \in 1..Len(samples.spans) :
         LET sp == samples.spans[k]
         IN /\ sp.n = 4410
            /\ sp.pitches =
                 <<getFrequencyFromContribution(rIn.days[k].contributionCount)>>
            /\ sp.divisor = 1
            /\ 2 * sp.scale = VolUnit
            /\ sp.i0 = 0
            /\ sp.scale * WaveformAtZero(sp.wave, sp.rnd) = 0
    /\ rPc = "done" =>
         /\ samples.length = 4410 * Len(rIn.days)
         /\ readUInt32LE(rWav.header, 40) = 8820 * Len(rIn.days)

C11_Witness ==
  /\ rPc = "done"
  /\ rIn.entry = "music"
  /\ Len(rIn.days) = 2
  /\ rIn.days[1].contributionCount = 0
  /\ rIn.days[2].contributionCount = 60
  /\ samples.spans[1].n = 4410
  /\ samples.spans[2].n = 4410
  /\ readUInt32LE(rWav.header, 40) = 2 * 8820

\* C12: an instrument selector outside 1..8 raises no error (every day is
\* rendered) and selects the closure of variant 1, the pure sine
\* sin(2 pi freq t): the same formula, hence the same amplitude for every
\* frequency and time, and no call of Math.random.
C12_DefaultInstrumentIsSine ==
  (rIn.entry = "p1custom" /\ rIn.instrumentId \notin 1..8) =>
    /\ rPc = "done" => Len(samples.spans) = Len(rIn.days)
    /\ \A k \in 1..Len(samples.spans) :
         /\ samples.spans[k].wave = getInstrumentWaveform(1)
         /\ samples.spans[k].wave = "sin"
         /\ samples.spans[k].rnd = NoRandom

C12_Witness ==
  /\ rPc = "done"
  /\ rIn.entry = "p1custom"
  /\ rIn.instrumentId = 9
  /\ Len(rIn.days) = 2
  /\ samples.spans[1].n > 0
  /\ samples.spans[2].wave = "sin"

\* C13: in part_001's custom renderer a day with a chord (count >= 10) is
\* computed as the selected waveform summed over the chord's pitches at the
\* same t and divided by the number of chord pitches; a day without a chord
\* is the waveform at its single base pitch; either is then multiplied by
\* the volume in effect.
C13_ChordIsMeanTimesVolume ==
  rIn.entry = "p1custom" =>
    \A k \in 1..Len(samples.spans) :
      LET c == rIn.days[k].contributionCount
          f == getFrequencyFromContributionCustom(c)
          sp == samples.spans[k]
      IN /\ sp.wave = getInstrumentWaveform(rIn.instrumentId)
         /\ sp.scale = IF rIn.volume.given THEN rIn.volume.value
                                           ELSE VolUnit \div 2
         /\ IF c >= 10
            THEN /\ sp.pitches = getChordFromContribution(c, f)
                 /\ Len(sp.pitches) = IF c >= 25 THEN 3 ELSE 2
                 /\ sp.pitches[1] = f
                 /\ sp.divisor = Len(sp.pitches)
            ELSE /\ sp.pitches = <<f>>
                 /\ sp.divisor = 1

C13_Witness ==
  /\ rPc = "done"
  /\ rIn.entry = "p1custom"
  /\ rIn.volume = Given(VolUnit \div 5)
  /\ Len(rIn.days) = 2
  /\ rIn.days[1].contributionCount = 60
  /\ rIn.days[2].contributionCount = 7
  /\ samples.spans[1].divisor = 3
  /\ samples.spans[2].divisor = 1
  /\ samples.spans[1].scale = VolUnit \div 5

\* C14 as stated: a custom render uses tempo 120 when the caller supplies
\* none and volume 0.5 when the caller supplies none, and uses a supplied
\* (positive) tempo and a supplied volume unchanged: every day's duration is
\* the rhythm mapping's at that tempo and every sample is scaled by that
\* volume.
C14_DefaultsAndSuppliedValues ==
  (rIn.entry \in ConfiguredEntries /\ PositiveTempo) =>
    LET tempo == IF rIn.tempo.given THEN rIn.tempo.value ELSE 120
        volume == IF rIn.volume.given THEN rIn.volume.value ELSE VolUnit \div 2
    IN /\ \A k \in 1..Len(rNotes) :
            rNotes[k].noteDuration =
              getNoteDurationFromContribution(rIn.days[k].contributionCount,
                                              tempo)
       /\ \A k \in 1..Len(samples.spans) : samples.spans[k].scale = volume

\* C15 as stated: a custom render whose tempo is supplied and <= 0 is
\* rejected before any sample is rendered: the day records are never mapped
\* to notes, no forEach iteration runs and no WAV is built, so no duration
\* is ever computed from that tempo.
C15_NonPositiveTempoRejected ==
  (rIn.entry \in ConfiguredEntries /\ rIn.tempo.given /\ rIn.tempo.value <= 0)
    => /\ rPc = "start"
       /\ rNotes = <<>>
       /\ samples = EmptyBuffer
       /\ rWav = IdleRWav

\* C16: a finished render of an empty day sequence pushed no sample and
\* built a header-only WAV: 44 header bytes and no data bytes,
\* Subchunk2Size = 0 and ChunkSize = 36.
C16_EmptyRenderHeaderOnly ==
  (rPc = "done" /\ rIn.days = <<>>) =>
    /\ samples = EmptyBuffer
    /\ Len(rWav.header) + rWav.dataBytes = 44
    /\ rWav.dataBytes = 0
    /\ SubSeq(rWav.header, 1, 4) = RIFF
    /\ readUInt32LE(rWav.header, 40) = 0
    /\ readUInt32LE(rWav.header, 4) = 36

C16_Witness ==
  /\ rPc = "done"
  /\ rIn.entry = "music"
  /\ rIn.days = <<>>
  /\ rK = 0
  /\ Len(rWav.header) = 44

\* day records that carry the given counts and one fixed date
Undated(counts) ==
  [k \in 1..Len(counts) |-> [date |-> Date2023, contributionCount |-> counts[k]]]

RECURSIVE RenderOfCounts(_, _, _)
\* the buffer after the first k days, computed from the ordered activity
\* counts and the configuration alone
RenderOfCounts(cfg, counts, k) ==
  IF k = 0 THEN EmptyBuffer
  ELSE IF RendererOf(cfg.entry) = "customRenderer"
       THEN RenderNoteCustom(
              RenderOfCounts(cfg, counts, k - 1),
              CustomNotes(Undated(counts), EffectiveTempo(cfg.tempo))[k],
              cfg.instrumentId, EffectiveVolume(cfg.volume))
       ELSE RenderNoteSimple(RenderOfCounts(cfg, counts, k - 1),
                             SimpleNotes(Undated(counts))[k])

\* C18: for every instrument other than the noise burst (6) the finished
\* render is a function of the ordered activity counts and the
\* configuration: the sample buffer and the WAV header equal the ones
\* recomputed from the counts alone, whatever the dates of the day records
\* and whatever Math.random() returned during the run, so two runs on the
\* same counts and configuration give the same bytes.
C18_RenderDeterministic ==
  (rPc = "done" /\ ~(rIn.entry = "p1custom" /\ rIn.instrumentId = 6)) =>
    LET counts == [k \in 1..Len(rIn.days) |-> rIn.days[k].contributionCount]
        expected == RenderOfCounts(rIn, counts, Len(counts))
    IN /\ samples = expected
       /\ rWav.header = getWavHeader(expected.length, 44100)
       /\ rWav.dataBytes = 2 * expected.length
       /\ \A k \in 1..Len(samples.spans) : samples.spans[k].rnd = NoRandom

C18_Witness ==
  /\ rPc = "done"
  /\ rIn.entry = "p1custom"
  /\ rIn.instrumentId = 4
  /\ Len(rIn.days) = 2
  /\ rIn.days[1].date = Date2024
  /\ rIn.days[2].date = Date2023
  /\ rIn.days[1].contributionCount = 15
  /\ samples.spans[1].wave = "sawtooth"
  /\ samples.length > 0

(***************************************************************************)
(* Requests -- github.service.ts generateAndSendMusic, generateMusicByYear,*)
(* convertWavToMp3, sendMp3Response.  The music, stream and custom         *)
(* endpoints all run generateAndSendMusic.  Each await, each step of the   *)
(* ffmpeg child process and each stream event is one action; JavaScript    *)
(* between two awaits runs without interleaving.                           *)
(***************************************************************************)
\* the controller's routes: music, music/stream, music/custom, music/year
Endpoints == {"music", "stream", "custom", "year"}
\* the isStream argument the route passes: true from streamMusic only
isStream(endpoint) == endpoint = "stream"

\* path.join(tempDir, `${username}.wav`) and `${username}.mp3`
wavPath(u) == <<u, "wav">>
mp3Path(u) == <<u, "mp3">>
\* path.join(tempDir, `${username}_${year}.wav`) and `${username}_${year}.mp3`
wavPathYear(u, y) == <<u, YearText(y), "wav">>
mp3PathYear(u, y) == <<u, YearText(y), "mp3">>

\* String.prototype.startsWith
startsWith(str, prefix) ==
  /\ Len(prefix) <= Len(str)
  /\ SubSeq(str, 1, Len(prefix)) = prefix

\* a plausible slip: the days of the selected year are dropped, not kept
filterByYear_inverted(allDays, year) ==
  IF year.given /\ year.value # <<>>
  THEN SelectSeq(allDays, LAMBDA day : ~startsWith(day.date, year.value))
  ELSE allDays

\* filteredDays = allDays; if (year) filteredDays = allDays.filter(day =>
\* day.date.startsWith(year)): undefined and '' are falsy
filterByYear(allDays, year) ==
  IF year.given /\ year.value # <<>>
  THEN SelectSeq(allDays, LAMBDA day : startsWith(day.date, year.value))
  ELSE allDays

\* what fetchContributionDays can resolve besides null: the flattened weeks
FetchedDays ==
  {<<>>,
   <<[date |-> Date2023, contributionCount |-> 7]>>,
   <<[date |-> Date2023, contributionCount |-> 7],
     [date |-> Date2024, contributionCount |-> 15],
     [date |-> Date2023, contributionCount |-> 60]>>}

\* the record of request r touching, at path p, a file another request wrote
Touch(r, op, p) ==
  IF files[p].exists /\ files[p].of # r
  THEN {[by |-> r, op |-> op, path |-> p, owner |-> files[p].of]}
  ELSE {}
\* the record of request r not finding the file it wrote at path p
Missing(r, p) == {[by |-> r, op |-> "missing", path |-> p, owner |-> r]}

\* a request arrives on a route with its query parameters
Receive(r) ==
  /\ alive
  /\ pc[r] = "idle"
  /\ \E u \in Users : user' = [user EXCEPT ![r] = u]
  /\ \E e \in Endpoints, y \in YearParams :
       /\ e # "year" => y = NoYear
       /\ req' = [req EXCEPT ![r] = [NoRequest EXCEPT !.endpoint = e,
                                                      !.year = y]]
  /\ pc' = [pc EXCEPT ![r] = "fetching"]
  /\ UNCHANGED <<files, ffIn, resp, foreign, alive, mapVars, wavVars, renVars>>

\* fetchContributionDays resolved null (no weeks): 404 in both handlers
FetchNull(r) ==
  /\ alive
  /\ pc[r] = "fetching"
  /\ req' = [req EXCEPT ![r].fetched = [got |-> "null", days |-> <<>>]]
  /\ resp' = [resp EXCEPT ![r].status = 404, ![r].sends = @ + 1]
  /\ pc' = [pc EXCEPT ![r] = "done"]
  /\ UNCHANGED <<user, files, ffIn, foreign, alive, mapVars, wavVars, renVars>>

\* the two temp files of request r: named by its username, and by its year
\* on the year route
wavPathOf(r) ==
  IF req[r].endpoint = "year" THEN wavPathYear(user[r], req[r].year)
                              ELSE wavPath(user[r])
mp3PathOf(r) ==
  IF req[r].endpoint = "year" THEN mp3PathYear(user[r], req[r].year)
                              ELSE mp3Path(user[r])

\* generateAndSendMusic after fetchContributionDays resolved an array
\* (!contributionDays is false for every array, the empty one included):
\* samples, wavData, fs.writeFileSync(wavPath, wavData),
\* ffmpeg(wavPath)...save(mp3Path)
FetchDays(r) ==
  /\ alive
  /\ pc[r] = "fetching"
  /\ req[r].endpoint # "year"
  /\ \E days \in FetchedDays :
       req' = [req EXCEPT ![r].fetched = [got |-> "days", days |-> days],
                          ![r].rendered = [done |-> TRUE, days |-> days],
                          ![r].promise = "pending"]
  /\ files' = [files EXCEPT ![wavPathOf(r)] = File(r, r)]
  /\ foreign' = foreign \cup Touch(r, "overwrite", wavPathOf(r))
  /\ pc' = [pc EXCEPT ![r] = "converting"]
  /\ UNCHANGED <<user, ffIn, resp, alive, mapVars, wavVars, renVars>>

\* generateMusicByYear after fetchContributionDays resolved an array: 404
\* when it is empty or no day is left after the filter, otherwise samples,
\* wavData, fs.writeFileSync(wavPath, wavData), ffmpeg(wavPath)...save(mp3Path)
FetchDaysByYear(r) ==
  /\ alive
  /\ pc[r] = "fetching"
  /\ req[r].endpoint = "year"
  /\ \E allDays \in FetchedDays :
       LET filteredDays == filterByYear(allDays, req[r].year)
       IN IF Len(allDays) = 0 \/ Len(filteredDays) = 0
          THEN /\ req' = [req EXCEPT ![r].fetched =
                                       [got |-> "days", days |-> allDays]]
               /\ resp' = [resp EXCEPT ![r].status = 404, ![r].sends = @ + 1]
               /\ pc' = [pc EXCEPT ![r] = "done"]
               /\ UNCHANGED <<files, foreign>>
          ELSE /\ req' = [req EXCEPT
                            ![r].fetched = [got |-> "days", days |-> allDays],
                            ![r].rendered = [done |-> TRUE,
                                             days |-> filteredDays],
                            ![r].promise = "pending"]
               /\ files' = [files EXCEPT ![wavPathOf(r)] = File(r, r)]
               /\ foreign' = foreign \cup Touch(r, "overwrite", wavPathOf(r))
               /\ pc' = [pc EXCEPT ![r] = "converting"]
               /\ UNCHANGED resp
  /\ UNCHANGED <<user, ffIn, alive, mapVars, wavVars, renVars>>

\* the ffmpeg process opens and reads its input file
FfmpegRead(r) ==
  /\ alive
  /\ pc[r] = "converting"
  /\ IF files[wavPathOf(r)].exists
     THEN /\ ffIn' = [ffIn EXCEPT ![r] = files[wavPathOf(r)]]
          /\ foreign' = foreign \cup Touch(r, "read", wavPathOf(r))
          /\ pc' = [pc EXCEPT ![r] = "transcoding"]
          /\ UNCHANGED <<resp, req>>
     ELSE \* no such file: ffmpeg exits, the 'error' handler answers 500
          \* and rejects
          /\ foreign' = foreign \cup Missing(r, wavPathOf(r))
          /\ resp' = [resp EXCEPT ![r].status = 500, ![r].sends = @ + 1]
          /\ req' = [req EXCEPT ![r].promise = "rejected", ![r].event = "error"]
          /\ pc' = [pc EXCEPT ![r] = "failed"]
          /\ UNCHANGED ffIn
  /\ UNCHANGED <<user, files, alive, mapVars, wavVars, renVars>>

\* a plausible slip: the 'error' handler answers but never settles the promise
FfmpegError_noReject(r) ==
  /\ alive
  /\ pc[r] \in {"converting", "transcoding"}
  /\ resp' = [resp EXCEPT ![r].status = 500, ![r].sends = @ + 1]
  /\ req' = [req EXCEPT ![r].event = "error"]
  /\ pc' = [pc EXCEPT ![r] = "failed"]
  /\ UNCHANGED <<user, files, ffIn, foreign, alive, mapVars, wavVars, renVars>>

\* ffmpeg fails by itself: .on('error'): res.status(500).send, reject
FfmpegError(r) ==
  /\ alive
  /\ pc[r] \in {"converting", "transcoding"}
  /\ resp' = [resp EXCEPT ![r].status = 500, ![r].sends = @ + 1]
  /\ req' = [req EXCEPT ![r].promise = "rejected", ![r].event = "error"]
  /\ pc' = [pc EXCEPT ![r] = "failed"]
  /\ UNCHANGED <<user, files, ffIn, foreign, alive, mapVars, wavVars, renVars>>

\* the ffmpeg process writes its output file (fluent-ffmpeg passes -y)
FfmpegWrite(r) ==
  /\ alive
  /\ pc[r] = "transcoding"
  /\ files' = [files EXCEPT ![mp3PathOf(r)] = File(r, ffIn[r].from)]
  /\ foreign' = foreign \cup Touch(r, "overwrite", mp3PathOf(r))
  /\ pc' = [pc EXCEPT ![r] = "encoded"]
  /\ UNCHANGED <<user, req, ffIn, resp, alive, mapVars, wavVars, renVars>>

\* a plausible slip: the two dispositions are swapped
Mp3Headers_swapped(stream) ==
  [contentType |-> "audio/mpeg",
   disposition |-> IF stream THEN "attachment; filename=music.mp3"
                             ELSE "inline"]

\* sendMp3Response: res.setHeader('Content-Type', 'audio/mpeg') and
\* res.setHeader('Content-Disposition', isStream ? 'inline' : 'attachment;
\* filename=music.mp3')
Mp3Headers(stream) ==
  [contentType |-> "audio/mpeg",
   disposition |-> IF stream THEN "inline"
                             ELSE "attachment; filename=music.mp3"]

\* convertWavToMp3 .on('end'): sendMp3Response sets the headers and calls
\* pipe(res) on a read stream (opened later), then fs.unlinkSync(wavPath)
\* and resolve().
\* unlinkSync of a missing file throws out of the event handler.
FfmpegEnd(r) ==
  /\ alive
  /\ pc[r] = "encoded"
  /\ req[r].endpoint # "year"
  /\ resp' = [resp EXCEPT
                ![r].headers = Mp3Headers(isStream(req[r].endpoint)),
                ![r].sends = @ + 1]
  /\ IF files[wavPathOf(r)].exists
     THEN /\ files' = [files EXCEPT ![wavPathOf(r)] = NoFile]
          /\ foreign' = foreign \cup Touch(r, "delete", wavPathOf(r))
          /\ req' = [req EXCEPT ![r].promise = "resolved", ![r].event = "end"]
          /\ pc' = [pc EXCEPT ![r] = "piping"]
          /\ UNCHANGED alive
     ELSE /\ foreign' = foreign \cup Missing(r, wavPathOf(r))
          /\ req' = [req EXCEPT ![r].event = "end"]
          /\ pc' = [pc EXCEPT ![r] = "threw"]
          /\ alive' = FALSE
          /\ UNCHANGED files
  /\ UNCHANGED <<user, ffIn, mapVars, wavVars, renVars>>

\* generateMusicByYear .on('end'): resolve(), and the handler goes on:
\* fs.readFileSync(mp3Path), fs.unlinkSync(wavPath), fs.unlinkSync(mp3Path),
\* res.setHeader('Content-Type', 'text/html'), res.send(html) with the MP3
\* embedded.  A missing file throws inside the async handler, the framework
\* answers 500.
YearEnd(r) ==
  /\ alive
  /\ pc[r] = "encoded"
  /\ req[r].endpoint = "year"
  /\ IF ~files[mp3PathOf(r)].exists
     THEN /\ foreign' = foreign \cup Missing(r, mp3PathOf(r))
          /\ resp' = [resp EXCEPT ![r].status = 500, ![r].sends = @ + 1]
          /\ pc' = [pc EXCEPT ![r] = "failed"]
          /\ UNCHANGED files
     ELSE IF ~files[wavPathOf(r)].exists
     THEN /\ foreign' = foreign \cup Touch(r, "read", mp3PathOf(r))
                                \cup Missing(r, wavPathOf(r))
          /\ resp' = [resp EXCEPT ![r].status = 500, ![r].sends = @ + 1]
          /\ pc' = [pc EXCEPT ![r] = "failed"]
          /\ UNCHANGED files
     ELSE /\ foreign' = foreign \cup Touch(r, "read", mp3PathOf(r))
                                \cup Touch(r, "delete", wavPathOf(r))
                                \cup Touch(r, "delete", mp3PathOf(r))
          /\ files' = [files EXCEPT ![wavPathOf(r)] = NoFile,
                                    ![mp3PathOf(r)] = NoFile]
          /\ resp' = [resp EXCEPT ![r] =
                        [status |-> 200,
                         headers |-> [contentType |-> "text/html",
                                      disposition |-> ""],
                         body |-> files[mp3PathOf(r)],
                         sends |-> resp[r].sends + 1]]
          /\ pc' = [pc EXCEPT ![r] = "done"]
  /\ req' = [req EXCEPT ![r].promise = "resolved", ![r].event = "end"]
  /\ UNCHANGED <<user, ffIn, alive, mapVars, wavVars, renVars>>

\* the read stream opens mp3Path and its content goes to the response; a
\* missing file makes the stream emit 'error', which has no listener
StreamPipe(r) ==
  /\ alive
  /\ pc[r] = "piping"
  /\ IF files[mp3PathOf(r)].exists
     THEN /\ resp' = [resp EXCEPT ![r].status = 200,
                                  ![r].body = files[mp3PathOf(r)]]
          /\ foreign' = foreign \cup Touch(r, "read", mp3PathOf(r))
          /\ pc' = [pc EXCEPT ![r] = "piped"]
          /\ UNCHANGED alive
     ELSE /\ foreign' = foreign \cup Missing(r, mp3PathOf(r))
          /\ pc' = [pc EXCEPT ![r] = "threw"]
          /\ alive' = FALSE
          /\ UNCHANGED resp
  /\ UNCHANGED <<user, req, files, ffIn, mapVars, wavVars, renVars>>

\* .on('finish'): fs.unlinkSync(mp3Path)
StreamFinish(r) ==
  /\ alive
  /\ pc[r] = "piped"
  /\ IF files[mp3PathOf(r)].exists
     THEN /\ files' = [files EXCEPT ![mp3PathOf(r)] = NoFile]
          /\ foreign' = foreign \cup Touch(r, "delete", mp3PathOf(r))
          /\ pc' = [pc EXCEPT ![r] = "done"]
          /\ UNCHANGED alive
     ELSE /\ foreign' = foreign \cup Missing(r, mp3PathOf(r))
          /\ pc' = [pc EXCEPT ![r] = "threw"]
          /\ alive' = FALSE
          /\ UNCHANGED files
  /\ UNCHANGED <<user, req, ffIn, resp, mapVars, wavVars, renVars>>

InitReq ==
  /\ ReqsAtRest
  /\ mIn = [count |-> 0, tempo |-> 0, useA440 |-> FALSE] /\ mOut = NoOut
  /\ wIn = [samples |-> <<>>, n |-> 0] /\ wOut = NoWav
  /\ rIn = IdleRender /\ rPc = "idle" /\ rNotes = <<>> /\ rK = 0
  /\ samples = IdleBuffer /\ rWav = IdleRWav

NextReq ==
  \E r \in Reqs :
    \/ Receive(r)
    \/ FetchNull(r)
    \/ FetchDays(r)
    \/ FetchDaysByYear(r)
    \/ FfmpegRead(r)
    \/ FfmpegError(r)
    \/ FfmpegWrite(r)
    \/ FfmpegEnd(r)
    \/ YearEnd(r)
    \/ StreamPipe(r)
    \/ StreamFinish(r)

SpecReq == InitReq /\ [][NextReq]_vars

(***************************************************************************)
(* Requests as part_001 handles them: generateAndSendMusic,                *)
(* generateCustomMusic and generateMusicByYear.  Each handler is one       *)
(* try/catch around its awaits; the catch block calls                      *)
(* res.status(500).send.  A rejected await continues in the catch block    *)
(* in the same turn (a microtask), so handler and catch are one action.    *)
(***************************************************************************)
\* new Date().getFullYear(): the model's present, not before any modelled date
CurrentYear == 2024
\* what getUserYears can resolve: [] after an error, else the years from the
\* account's creation to the present
UserYears == {{}, {2024}, 2023..CurrentYear}

DigitValue(ch) ==
  CASE ch = "0" -> 0 [] ch = "1" -> 1 [] ch = "2" -> 2 [] ch = "3" -> 3
    [] ch = "4" -> 4 [] ch = "5" -> 5 [] ch = "6" -> 6 [] ch = "7" -> 7
    [] ch = "8" -> 8 [] ch = "9" -> 9 [] OTHER -> 0 - 1

NaN == 0 - 1
RECURSIVE ParseDigits(_, _, _)
\* the number spelled by the digits of str from position k on, after acc
ParseDigits(str, k, acc) ==
  IF k > Len(str) \/ DigitValue(str[k]) < 0 THEN acc
  ELSE ParseDigits(str, k + 1, 10 * acc + DigitValue(str[k]))
\* parseInt(str) for a string without sign or blanks: its leading digits
parseInt(str) ==
  IF Len(str) = 0 \/ DigitValue(str[1]) < 0 THEN NaN
  ELSE ParseDigits(str, 1, 0)

\* contributionDays.filter(dayDate >= fromDate && dayDate <= toDate) with
\* fromDate = January 1st of the year and toDate = December 31st of the
\* year, or now for the current year: the days dated in that year
filterByDateRange(days, year) ==
  SelectSeq(days, LAMBDA day :
                    parseInt(SubSeq(day.date, 1, 4)) = parseInt(year.value))

\* what the GraphQL answer can hold as weeks: each week a sequence of days
FetchedWeeks ==
  {<<>>,
   << <<>> >>,
   << <<[date |-> Date2023, contributionCount |-> 7]>> >>,
   << <<[date |-> Date2023, contributionCount |-> 7],
        [date |-> Date2024, contributionCount |-> 15]>>,
      <<[date |-> Date2023, contributionCount |-> 60]>> >>}

RECURSIVE flatMap(_)
\* weeks.flatMap(week => week.contributionDays)
flatMap(weeks) ==
  IF weeks = <<>> THEN <<>> ELSE Head(weeks) \o flatMap(Tail(weeks))

\* the two temp files of request r in part_001
p1WavPathOf(r) ==
  CASE req[r].endpoint = "year" -> <<user[r], YearText(req[r].year), "wav">>
    [] req[r].endpoint = "custom" -> <<user[r], CustomSuffix, "wav">>
    [] OTHER -> wavPath(user[r])
p1Mp3PathOf(r) ==
  CASE req[r].endpoint = "year" -> <<user[r], YearText(req[r].year), "mp3">>
    [] req[r].endpoint = "custom" -> <<user[r], CustomSuffix, "mp3">>
    [] OTHER -> mp3Path(user[r])

\* generateMusicByYear up to its second await: getUserYears resolved (it
\* never rejects); no year: res.render('select-year'); a year that is not
\* among the user's years: 400; otherwise the contributions are requested
P1YearsFetched(r) ==
  /\ alive
  /\ pc[r] = "fetching"
  /\ req[r].endpoint = "year"
  /\ \E years \in UserYears :
       IF ~req[r].year.given \/ req[r].year.value = <<>>
       THEN /\ resp' = [resp EXCEPT ![r].status = 200, ![r].sends = @ + 1]
            /\ pc' = [pc EXCEPT ![r] = "done"]
       ELSE IF parseInt(req[r].year.value) \notin years
       THEN /\ resp' = [resp EXCEPT ![r].status = 400, ![r].sends = @ + 1]
            /\ pc' = [pc EXCEPT ![r] = "done"]
       ELSE /\ pc' = [pc EXCEPT ![r] = "fetchingDays"]
            /\ UNCHANGED resp
  /\ UNCHANGED <<user, req, files, ffIn, foreign, alive, mapVars, wavVars,
                 renVars>>

\* the handler is waiting for axios.post of the contributions query
P1AwaitsDays(r) ==
  IF req[r].endpoint = "year" THEN pc[r] = "fetchingDays"
                              ELSE pc[r] = "fetching"

\* axios.post rejects, or the answer has no user (reading a property of
\* null throws): the catch block answers 500
P1FetchThrew(r) ==
  /\ alive
  /\ P1AwaitsDays(r)
  /\ req' = [req EXCEPT ![r].fetched = [got |-> "threw", days |-> <<>>]]
  /\ resp' = [resp EXCEPT ![r].status = 500, ![r].sends = @ + 1]
  /\ pc' = [pc EXCEPT ![r] = "failed"]
  /\ UNCHANGED <<user, files, ffIn, foreign, alive, mapVars, wavVars, renVars>>

\* axios.post resolved weeks: 404 when there is no week (and, by year, when
\* no day is in the year); otherwise the render, fs.writeFileSync(wavPath)
\* and ffmpeg(wavPath)...save(mp3Path) inside a new Promise
P1FetchDays(r) ==
  /\ alive
  /\ P1AwaitsDays(r)
  /\ \E weeks \in FetchedWeeks :
       LET contributionDays == flatMap(weeks)
           used == IF req[r].endpoint = "year"
                   THEN filterByDateRange(contributionDays, req[r].year)
                   ELSE contributionDays
       IN IF Len(weeks) = 0 \/ (req[r].endpoint = "year" /\ Len(used) = 0)
          THEN /\ req' = [req EXCEPT ![r].fetched =
                            [got |-> "days", days |-> contributionDays]]
               /\ resp' = [resp EXCEPT ![r].status = 404, ![r].sends = @ + 1]
               /\ pc' = [pc EXCEPT ![r] = "done"]
               /\ UNCHANGED <<files, foreign>>
          ELSE /\ req' = [req EXCEPT
                            ![r].fetched = [got |-> "days",
                                            days |-> contributionDays],
                            ![r].rendered = [done |-> TRUE, days |-> used],
                            ![r].promise = "pending"]
               /\ files' = [files EXCEPT ![p1WavPathOf(r)] = File(r, r)]
               /\ foreign' = foreign \cup Touch(r, "overwrite", p1WavPathOf(r))
               /\ pc' = [pc EXCEPT ![r] = "converting"]
               /\ UNCHANGED resp
  /\ UNCHANGED <<user, ffIn, alive, mapVars, wavVars, renVars>>

\* .on('error') of part_001: res.status(500).send and reject(err); the
\* rejected await then enters the catch block, which calls
\* res.status(500).send again
P1ErrorHandler(r) ==
  /\ resp' = [resp EXCEPT ![r].status = 500, ![r].sends = @ + 2]
  /\ req' = [req EXCEPT ![r].promise = "rejected", ![r].event = "error"]
  /\ pc' = [pc EXCEPT ![r] = "failed"]

\* the ffmpeg process opens and reads its input file; if there is none it
\* exits and the command emits 'error'
P1FfmpegRead(r) ==
  /\ alive
  /\ pc[r] = "converting"
  /\ IF files[p1WavPathOf(r)].exists
     THEN /\ ffIn' = [ffIn EXCEPT ![r] = files[p1WavPathOf(r)]]
          /\ foreign' = foreign \cup Touch(r, "read", p1WavPathOf(r))
          /\ pc' = [pc EXCEPT ![r] = "transcoding"]
          /\ UNCHANGED <<resp, req>>
     ELSE /\ foreign' = foreign \cup Missing(r, p1WavPathOf(r))
          /\ P1ErrorHandler(r)
          /\ UNCHANGED ffIn
  /\ UNCHANGED <<user, files, alive, mapVars, wavVars, renVars>>

\* ffmpeg fails by itself
P1FfmpegError(r) ==
  /\ alive
  /\ pc[r] \in {"converting", "transcoding"}
  /\ P1ErrorHandler(r)
  /\ UNCHANGED <<user, files, ffIn, foreign, alive, mapVars, wavVars, renVars>>

\* the ffmpeg process writes its output file
P1FfmpegWrite(r) ==
  /\ alive
  /\ pc[r] = "transcoding"
  /\ files' = [files EXCEPT ![p1Mp3PathOf(r)] = File(r, ffIn[r].from)]
  /\ foreign' = foreign \cup Touch(r, "overwrite", p1Mp3PathOf(r))
  /\ pc' = [pc EXCEPT ![r] = "encoded"]
  /\ UNCHANGED <<user, req, ffIn, resp, alive, mapVars, wavVars, renVars>>

\* .on('end') of generateAndSendMusic and generateCustomMusic: the two
\* headers (generateCustomMusic: always attachment), createReadStream and
\* pipe(res); the files are deleted in the pipe's 'finish' handler
P1FfmpegEnd(r) ==
  /\ alive
  /\ pc[r] = "encoded"
  /\ req[r].endpoint # "year"
  /\ resp' = [resp EXCEPT
                ![r].headers = Mp3Headers(isStream(req[r].endpoint)),
                ![r].sends = @ + 1]
  /\ req' = [req EXCEPT ![r].event = "end"]
  /\ pc' = [pc EXCEPT ![r] = "piping"]
  /\ UNCHANGED <<user, files, ffIn, foreign, alive, mapVars, wavVars, renVars>>

\* .on('end') of generateMusicByYear: fs.readFileSync(mp3Path),
\* res.render('play-music'), fs.unlinkSync(wavPath), fs.unlinkSync(mp3Path),
\* resolve().  A missing file throws out of the event handler.
P1YearEnd(r) ==
  /\ alive
  /\ pc[r] = "encoded"
  /\ req[r].endpoint = "year"
  /\ IF ~files[p1Mp3PathOf(r)].exists
     THEN /\ foreign' = foreign \cup Missing(r, p1Mp3PathOf(r))
          /\ req' = [req EXCEPT ![r].event = "end"]
          /\ pc' = [pc EXCEPT ![r] = "threw"]
          /\ alive' = FALSE
          /\ UNCHANGED <<files, resp>>
     ELSE /\ resp' = [resp EXCEPT ![r] =
                        [status |-> 200,
                         headers |-> [contentType |-> "text/html",
                                      disposition |-> ""],
                         body |-> files[p1Mp3PathOf(r)],
                         sends |-> resp[r].sends + 1]]
          /\ IF files[p1WavPathOf(r)].exists
             THEN /\ foreign' = foreign \cup Touch(r, "read", p1Mp3PathOf(r))
                                        \cup Touch(r, "delete", p1WavPathOf(r))
                                        \cup Touch(r, "delete", p1Mp3PathOf(r))
                  /\ files' = [files EXCEPT ![p1WavPathOf(r)] = NoFile,
                                            ![p1Mp3PathOf(r)] = NoFile]
                  /\ req' = [req EXCEPT ![r].promise = "resolved",
                                        ![r].event = "end"]
                  /\ pc' = [pc EXCEPT ![r] = "done"]
                  /\ UNCHANGED alive
             ELSE /\ foreign' = foreign \cup Touch(r, "read", p1Mp3PathOf(r))
                                        \cup Missing(r, p1WavPathOf(r))
                  /\ req' = [req EXCEPT ![r].event = "end"]
                  /\ pc' = [pc EXCEPT ![r] = "threw"]
                  /\ alive' = FALSE
                  /\ UNCHANGED files
  /\ UNCHANGED <<user, ffIn, mapVars, wavVars, renVars>>

\* the read stream opens mp3Path and its content goes to the response; a
\* missing file makes the stream emit 'error', which has no listener
P1StreamPipe(r) ==
  /\ alive
  /\ pc[r] = "piping"
  /\ IF files[p1Mp3PathOf(r)].exists
     THEN /\ resp' = [resp EXCEPT ![r].status = 200,
                                  ![r].body = files[p1Mp3PathOf(r)]]
          /\ foreign' = foreign \cup Touch(r, "read", p1Mp3PathOf(r))
          /\ pc' = [pc EXCEPT ![r] = "piped"]
          /\ UNCHANGED alive
     ELSE /\ foreign' = foreign \cup Missing(r, p1Mp3PathOf(r))
          /\ pc' = [pc EXCEPT ![r] = "threw"]
          /\ alive' = FALSE
          /\ UNCHANGED resp
  /\ UNCHANGED <<user, req, files, ffIn, mapVars, wavVars, renVars>>

\* .on('finish'): fs.unlinkSync(wavPath), fs.unlinkSync(mp3Path), resolve()
P1StreamFinish(r) ==
  /\ alive
  /\ pc[r] = "piped"
  /\ IF ~files[p1WavPathOf(r)].exists
     THEN /\ foreign' = foreign \cup Missing(r, p1WavPathOf(r))
          /\ pc' = [pc EXCEPT ![r] = "threw"]
          /\ alive' = FALSE
          /\ UNCHANGED <<files, req>>
     ELSE IF ~files[p1Mp3PathOf(r)].exists
     THEN /\ foreign' = foreign \cup Touch(r, "delete", p1WavPathOf(r))
                                \cup Missing(r, p1Mp3PathOf(r))
          /\ files' = [files EXCEPT ![p1WavPathOf(r)] = NoFile]
          /\ pc' = [pc EXCEPT ![r] = "threw"]
          /\ alive' = FALSE
          /\ UNCHANGED req
     ELSE /\ foreign' = foreign \cup Touch(r, "delete", p1WavPathOf(r))
                                \cup Touch(r, "delete", p1Mp3PathOf(r))
          /\ files' = [files EXCEPT ![p1WavPathOf(r)] = NoFile,
                                    ![p1Mp3PathOf(r)] = NoFile]
          /\ req' = [req EXCEPT ![r].promise = "resolved"]
          /\ pc' = [pc EXCEPT ![r] = "done"]
          /\ UNCHANGED alive
  /\ UNCHANGED <<user, ffIn, resp, mapVars, wavVars, renVars>>

NextP1 ==
  \E r \in Reqs :
    \/ Receive(r)
    \/ P1YearsFetched(r)
    \/ P1FetchThrew(r)
    \/ P1FetchDays(r)
    \/ P1FfmpegRead(r)
    \/ P1FfmpegError(r)
    \/ P1FfmpegWrite(r)
    \/ P1FfmpegEnd(r)
    \/ P1YearEnd(r)
    \/ P1StreamPipe(r)
    \/ P1StreamFinish(r)

SpecP1 == InitReq /\ [][NextP1]_vars

\* C4 as stated: requests that run interleaved, two for one username
\* included, are independent: none reads, overwrites or deletes a WAV or MP3
\* temp file that belongs to another, none finds its own file gone, and a
\* response body is the MP3 of the request's own WAV data.
C4_RequestsIndependent ==
  /\ foreign = {}
  /\ alive
  /\ \A r \in Reqs :
       resp[r].body.exists => resp[r].body.of = r /\ resp[r].body.from = r

\* request r wrote no temp file, started no transcoder and rendered nothing
NothingSynthesized(r) ==
  /\ ~req[r].rendered.done
  /\ ffIn[r] = NoFile
  /\ \A p \in Paths : files[p].exists => files[p].of # r
  /\ pc[r] \notin {"converting", "transcoding", "encoded", "piping", "piped"}

\* C17 as stated: on every music endpoint a request whose fetched
\* contribution data is missing (null) or holds no days is answered 404
\* before synthesis: nothing is rendered, no temp file is written and the
\* transcoder is never started.
C17_NoDataIs404 ==
  \A r \in Reqs :
    (req[r].fetched.got = "null"
       \/ (req[r].fetched.got = "days" /\ req[r].fetched.days = <<>>))
      => /\ resp[r].status = 404
         /\ NothingSynthesized(r)

\* str begins with the characters of prefix
IsPrefix(prefix, str) ==
  /\ Len(prefix) <= Len(str)
  /\ \A i \in 1..Len(prefix) : str[i] = prefix[i]

RECURSIVE DaysOfYear(_, _, _)
\* of the first k days, those whose date begins with y, in their order
DaysOfYear(days, y, k) ==
  IF k = 0 THEN <<>>
  ELSE IF IsPrefix(y, days[k].date)
       THEN Append(DaysOfYear(days, y, k - 1), days[k])
       ELSE DaysOfYear(days, y, k - 1)

\* C19: a by-year request that fetched days renders exactly the fetched
\* days whose date string starts with the year, in their original order (all
\* days when no year is given); when no day matches it is answered 404 and
\* nothing is rendered, no temp file is written and no transcoder is started.
C19_ByYearRendersMatchingDays ==
  \A r \in Reqs :
    (req[r].endpoint = "year" /\ req[r].fetched.got = "days") =>
      LET days == req[r].fetched.days
          matching == IF req[r].year.given
                      THEN DaysOfYear(days, req[r].year.value, Len(days))
                      ELSE days
      IN IF matching = <<>>
         THEN /\ resp[r].status = 404
              /\ pc[r] = "done"
              /\ NothingSynthesized(r)
         ELSE /\ req[r].rendered.done
              /\ req[r].rendered.days = matching
              /\ resp[r].status # 404

C19_Witness ==
  \E r \in Reqs :
    /\ req[r].endpoint = "year"
    /\ req[r].year = Year(<<"2", "0", "2", "3">>)
    /\ Len(req[r].fetched.days) = 3
    /\ Len(req[r].rendered.days) = 2
    /\ req[r].rendered.days[1].contributionCount = 7
    /\ req[r].rendered.days[2].contributionCount = 60
    /\ resp[r].status = 200
    /\ resp[r].body.exists

\* the headers sendMp3Response owes request r
OwedHeaders(r) ==
  [contentType |-> "audio/mpeg",
   disposition |-> IF req[r].endpoint = "stream"
                   THEN "inline" ELSE "attachment; filename=music.mp3"]

\* C20 (state part): on the music, stream and custom routes a response that
\* is about to carry or carries MP3 bytes has Content-Type audio/mpeg and
\* Content-Disposition inline exactly on the stream route, attachment;
\* filename=music.mp3 otherwise.
C20_HeadersOfMp3Response ==
  \A r \in Reqs :
    (req[r].endpoint # "year"
       /\ (resp[r].body.exists \/ resp[r].status = 200
             \/ pc[r] \in {"piping", "piped"}))
      => resp[r].headers = OwedHeaders(r)

C21_TranscoderErrorIs500 ==
  \A r \in Reqs :
    req[r].event = "error" =>
      /\ resp[r].status = 500
      /\ resp[r].sends = 1
      /\ req[r].promise = "rejected"
      /\ resp[r].headers = NoHeaders
      /\ ~resp[r].body.exists
      /\ pc[r] \notin {"encoded", "piping", "piped", "done"}

C21_Witness ==
  /\ req[1].endpoint = "stream" /\ req[1].event = "error"
  /\ req[2].endpoint = "year" /\ req[2].event = "error"
  /\ ffIn[1].exists
  /\ ~ffIn[2].exists
  /\ resp[1].status = 500
  /\ resp[2].status = 500

\* C22 as stated: once a request has ended, by a sent MP3 or HTML response,
\* by a 404 or by a transcoder error, no WAV or MP3 file it wrote remains in
\* the temp directory.
C22_TempFilesDeleted ==
  \A r \in Reqs :
    pc[r] \in {"done", "failed"} =>
      \A p \in Paths : files[p].exists => files[p].of # r

\* C23 as stated: each request performs res.send, res.render or pipe(res)
\* at most once on every path through part_001's generateAndSendMusic,
\* generateCustomMusic and generateMusicByYear, so no 500 is sent after a
\* response has been sent for the same request.
C23_AtMostOneResponse ==
  \A r \in Reqs : resp[r].sends <= 1

====
